---- MODULE Spec2Model ----
(***************************************************************************)
(* Model of the disposable-inbox servers of foxhellorigin/shorttermemail.  *)
(*                                                                         *)
(* The repository holds near-duplicate Express servers.  Each is a program *)
(* of its own with its own store; `variant` says which one runs.           *)
(*                                                                         *)
(*   "sqlite"  src/unnamed/part_000          EmailService over SQLite      *)
(*   "stream"  src/backend/server.js 1-223   streaming Mailgun parser      *)
(*   "urlenc"  src/backend/server.js 315-472 Mailgun form / JSON webhook   *)
(*   "event"   src/unnamed/part_001 1-216    event / form / MIME / JSON    *)
(*   "multi"   src/unnamed/part_002          SendGrid/Mailgun/CloudMailin  *)
(*   "custom"  src/unnamed/part_003          custom body parser, truncation*)
(*                                                                         *)
(* Two more servers (server.js 224-314, simulate only, and part_001        *)
(* 217-452, content-type driven) repeat routes of the six and are left out.*)
(*                                                                         *)
(* Strings.  An address-like string is a tuple whose elements are "<", ">" *)
(* or a token standing for a non-empty run of characters other than "<"    *)
(* and ">".  The JavaScript value undefined is the one-element tuple       *)
(* <<"undefined">>, a non-string value (object, array) is <<"[object]">>.  *)
(* A text (subject, body) is a record [id, len, mark]: which text it is,   *)
(* how many of its characters are kept and how many characters of a        *)
(* truncation marker were appended.                                        *)
(***************************************************************************)
EXTENDS Integers, Sequences, FiniteSets, TLC

VARIABLES
    variant,    \* which server of the repository is running
    emails,     \* the store: `emails` array / rows of table emails, in insertion (rowid) order
    emailId,    \* next id: `emailId` counter / AUTOINCREMENT sequence + 1
    assigned,   \* history: the ids handed out so far, in insertion order
    base,       \* number of ids handed out before the first step of the behaviour
    now,        \* wall clock, in hours
    pending,    \* webhook handlers suspended at `await simpleParser(...)`
    req,        \* the request handled last
    resp,       \* the response sent last
    exIn,       \* extractEmail: argument (pure-function specification)
    exOut,      \* extractEmail: result
    mw          \* the streaming body parser: the request it is reading

vars == <<variant, emails, emailId, assigned, base, now, pending, req, resp, exIn, exOut, mw>>

----------------------------------------------------------------------------
(* Bounds *)

MaxInserts == 2     \* inserts per behaviour
MaxTime == 25       \* last clock value, in hours
MaxPending == 1     \* webhook handlers suspended at the same time
MaxLen == 5         \* longest extractEmail argument explored exhaustively

(* Program constants *)

DefaultLimit == 50      \* getEmailsForAddress(emailAddress, limit = 50)
DefaultHours == 24      \* cleanupOldEmails(hours = 24), req.body.hours || 24

Variants == {"sqlite", "stream", "urlenc", "event", "multi", "custom"}
WebhookVariants == {"stream", "urlenc", "event", "multi", "custom"}
Times == {0, MaxTime}

----------------------------------------------------------------------------
(* JavaScript values *)

undefined == <<"undefined">>
NonString == <<"[object]">>
EmptyStr == <<>>

IsString(v) == v # undefined /\ v # NonString
Truthy(v) == v # undefined /\ v # EmptyStr
Or(a, b) == IF Truthy(a) THEN a ELSE b

UndefText == [id |-> "undefined", len |-> 0, mark |-> 0]
EmptyText == [id |-> "", len |-> 0, mark |-> 0]
Lit(s, n) == [id |-> s, len |-> n, mark |-> 0]
TruthyT(t) == t.id # "undefined" /\ t.len + t.mark > 0
OrT(a, b) == IF TruthyT(a) THEN a ELSE b
Length(t) == t.len + t.mark

\* what querystring.parse gives for a key that occurs twice: an array of two
\* strings (truthy, .length 2, no .substring)
ArrayText == [id |-> "[array]", len |-> 2, mark |-> 0]
IsArrayT(t) == t.id = "[array]"

Min(a, b) == IF a < b THEN a ELSE b

\* String.prototype.substring(0, n) on a text
Substring(t, n) ==
    IF Length(t) <= n THEN t
    ELSE IF t.len >= n THEN [id |-> t.id, len |-> n, mark |-> 0]
    ELSE [id |-> t.id, len |-> t.len, mark |-> n - t.len]

\* s + '<marker>' on a text
Concat(t, markerLen) == [id |-> t.id, len |-> t.len, mark |-> t.mark + markerLen]

----------------------------------------------------------------------------
(* extractEmail: emailString.match(/<([^>]+)>/), part_001 137-141 *)

TypeError == <<"TypeError">>

\* the regular expression matches at position i: "<", one or more
\* characters other than ">", then ">"
MatchAt(s, i) ==
    /\ s[i] = "<"
    /\ i < Len(s)
    /\ s[i + 1] # ">"
    /\ \E j \in (i + 2)..Len(s) : s[j] = ">"

\* [^>]+ stops at the first ">" after position i
CloseOf(s, i) == CHOOSE j \in (i + 2)..Len(s) :
                    s[j] = ">" /\ \A k \in (i + 1)..(j - 1) : s[k] # ">"

\* a plausible slip: /<([^>]*)>/, which also accepts an empty bracket pair
extractEmailStar(emailString) ==
    IF ~Truthy(emailString) THEN EmptyStr
    ELSE IF ~IsString(emailString) THEN TypeError
    ELSE LET s == emailString
             M == {i \in 1..Len(s) : s[i] = "<" /\ \E j \in (i + 1)..Len(s) : s[j] = ">"}
         IN IF M = {} THEN s
            ELSE LET i == CHOOSE x \in M : \A y \in M : x <= y
                     j == CHOOSE x \in (i + 1)..Len(s) :
                            s[x] = ">" /\ \A k \in (i + 1)..(x - 1) : s[k] # ">"
                 IN SubSeq(s, i + 1, j - 1)

extractEmail(emailString) ==
    IF ~Truthy(emailString) THEN EmptyStr                \* if (!emailString) return ''
    ELSE IF ~IsString(emailString) THEN TypeError        \* .match is not a function
    ELSE LET s == emailString
             M == {i \in 1..Len(s) : MatchAt(s, i)}
         IN IF M = {} THEN s                             \* match ? match[1] : emailString
            ELSE LET i == CHOOSE x \in M : \A y \in M : x <= y   \* leftmost match
                 IN SubSeq(s, i + 1, CloseOf(s, i) - 1)

----------------------------------------------------------------------------
(* Requests on the wire and the values the body parsers hand to a handler *)

NoEnvelope == [present |-> FALSE, to |-> undefined, from |-> undefined]
NoHeaders == [present |-> FALSE, subject |-> UndefText]
NoEvent == [present |-> FALSE, event |-> "", message |-> FALSE,
            recipients0 |-> undefined, from |-> undefined, subject |-> UndefText]
NoMime == [ok |-> FALSE, to |-> undefined, from |-> undefined,
           subject |-> UndefText, text |-> UndefText, html |-> UndefText]
NoRaw == [hasFrom |-> FALSE, hasTo |-> FALSE, strlen |-> 0, mime |-> NoMime]

\* an object none of whose properties is set: every property reads undefined
NoFields ==
    [recipient |-> undefined, sender |-> undefined, to |-> undefined, from |-> undefined,
     toEmail |-> undefined, fromEmail |-> undefined,
     subject |-> UndefText, bodyPlain |-> UndefText, bodyHtml |-> UndefText,
     strippedText |-> UndefText, strippedHtml |-> UndefText, body |-> UndefText,
     text |-> UndefText, html |-> UndefText, plain |-> UndefText,
     envelope |-> NoEnvelope, headers |-> NoHeaders, eventData |-> NoEvent]

\* req.body as a handler sees it.  kind is typeof-like: "undefined", "object"
\* or "string"; f holds what property reads return (all undefined on a
\* string); raw describes a string body.
BodyUndefined == [kind |-> "undefined", f |-> NoFields, raw |-> NoRaw]
BodyObject(f) == [kind |-> "object", f |-> f, raw |-> NoRaw]
BodyString(raw) == [kind |-> "string", f |-> NoFields, raw |-> raw]

\* a request on the wire: declared content type, and either fields (JSON or
\* form encoded) or raw text
WireJson(f) == [ctype |-> "application/json", f |-> f, raw |-> NoRaw]
WireForm(f) == [ctype |-> "application/x-www-form-urlencoded", f |-> f, raw |-> NoRaw]
WireText(raw) == [ctype |-> "text/plain", f |-> NoFields, raw |-> raw]

MAX_CONTENT == 10000            \* part_003 140
StreamFieldCap == 10000         \* server.js 64-65: substring(0, 10000)

\* server.js 60-66: essentialData
EssentialData(parsed) ==
    [NoFields EXCEPT
        !.recipient = parsed.recipient,
        !.sender = parsed.sender,
        !.subject = parsed.subject,
        !.bodyPlain = IF parsed.bodyPlain = UndefText THEN EmptyText
                      ELSE OrT(Substring(parsed.bodyPlain, StreamFieldCap), EmptyText),
        !.bodyHtml = IF parsed.bodyHtml = UndefText THEN EmptyText
                     ELSE OrT(Substring(parsed.bodyHtml, StreamFieldCap), EmptyText)]

\* server.js 64-65: `parsed['body-plain']?.substring(0, 10000)` is a TypeError
\* when the value is an array
EssentialThrows(parsed) == IsArrayT(parsed.bodyPlain) \/ IsArrayT(parsed.bodyHtml)

\* a slip: a catch block that leaves the body empty
ParseErrorBodyEmpty == NoFields

\* server.js 74: req.body = {recipient: 'error@shorttermemail.com', subject: 'Parse Error'}
ParseErrorBody ==
    [NoFields EXCEPT !.recipient = <<"error@shorttermemail.com">>,
                     !.subject = Lit("Parse Error", 11)]

\* server.js 54-77: req.body as the 'end' handler of streamMailgunRequest sets it
StreamBody(parsed) ==
    IF EssentialThrows(parsed) THEN BodyObject(ParseErrorBody)
    ELSE BodyObject(EssentialData(parsed))

\* The middleware chain in front of POST /api/webhook/email.
\*   express.json() parses application/json and otherwise leaves {} ;
\*   express.text({type: '*/*'}) turns every other body into a string, so a
\*   later express.urlencoded() finds the body already parsed;
\*   noBodyParser / customBodyParser skip the webhook url, and only the
\*   form-urlencoded parsers of "stream" and "custom" set req.body.
ParseBody(v, w) ==
    CASE v \in {"event", "urlenc"} ->
            IF w.ctype = "application/json" THEN BodyObject(w.f)
            ELSE BodyString(w.raw)
      [] v = "multi" ->
            IF w.ctype = "application/json" THEN BodyObject(w.f)
            ELSE BodyObject(NoFields)
      [] v = "stream" ->
            IF w.ctype = "application/x-www-form-urlencoded"
            THEN StreamBody(w.f)
            ELSE BodyUndefined
      [] v = "custom" ->
            IF w.ctype = "application/x-www-form-urlencoded"
            THEN BodyObject(w.f)
            ELSE BodyUndefined
      [] OTHER -> BodyUndefined

----------------------------------------------------------------------------
(* POST /api/webhook/email: the handlers *)

NoSubject == Lit("No Subject", 10)
NoContent == Lit("No content", 10)
UnknownSender == <<"unknown@sender.com">>
UnknownRecipient == <<"unknown@shorttermemail.com">>

BodyMarkerLen == 34         \* '\n\n...[Email truncated - too large]'
HtmlMarkerLen == 39         \* '<p>...[Email truncated - too large]</p>'
SubjectCap == 200           \* part_003 196, server.js 164
CustomStoreCap == 20000     \* part_003 197-198
StreamStoreCap == 5000      \* server.js 165-166
TruncatedFrom == 10000      \* part_003 202

\* the locals toEmail, fromEmail, subject, body, htmlBody after shape detection
Fields(to, from, subject, body, html) ==
    [tag |-> "fields", toEmail |-> to, fromEmail |-> from, subject |-> subject,
     body |-> body, htmlBody |-> html]
NoVals == Fields(undefined, undefined, UndefText, UndefText, UndefText)
Tagged(tag) == [NoVals EXCEPT !.tag = tag]

\* what a handler run ends with: a response, and the record to push if any
Ack(tag, status, success) ==
    [tag |-> tag, status |-> status, success |-> success,
     to |-> undefined, from |-> undefined, subject |-> UndefText,
     body |-> UndefText, html |-> UndefText, truncated |-> "undefined", size |-> -1]
Stored(to, from, subject, body, html, truncated, size) ==
    [tag |-> "stored", status |-> 200, success |-> TRUE,
     to |-> to, from |-> from, subject |-> subject,
     body |-> body, html |-> html, truncated |-> truncated, size |-> size]

\* `Email delivered from ${fromEmail} with subject: ${subject}` (a token of
\* the address counts as one character)
Synthesized(from, subject) ==
    Lit("Email delivered from ${fromEmail} with subject: ${subject}",
        36 + Len(from) + Length(subject))

\* a slip: a parse failure that falls back to a placeholder recipient
MimeFieldsFallback(mime) ==
    IF mime.ok
    THEN Fields(Or(mime.to, EmptyStr), Or(mime.from, EmptyStr),
                OrT(mime.subject, NoSubject),
                OrT(mime.text, OrT(mime.html, NoContent)),
                OrT(mime.html, EmptyText))
    ELSE Fields(UnknownRecipient, undefined, NoSubject, NoContent, EmptyText)

\* the result of `await simpleParser(text)` as the handlers read it
MimeFields(mime) ==
    IF mime.ok
    THEN Fields(Or(mime.to, EmptyStr), Or(mime.from, EmptyStr),
                OrT(mime.subject, NoSubject),
                OrT(mime.text, OrT(mime.html, NoContent)),
                OrT(mime.html, EmptyText))
    ELSE NoVals                                   \* catch (parseError): log only

IsMime(b) == b.kind = "string" /\ b.raw.hasFrom /\ b.raw.hasTo

JsonFields(f) ==
    Fields(f.to, f.from, OrT(f.subject, NoSubject),
           OrT(f.text, OrT(f.html, NoContent)), OrT(f.html, EmptyText))

\* ---- "event": part_001 63-170 ----

\* a slip that would try the generic JSON shape before the form-field shape
DetectEventJsonFirst(b) ==
    LET f == b.f  ev == b.f.eventData IN
    IF b.kind = "undefined" THEN Tagged("exception")
    ELSE IF ev.present THEN
        IF ev.event = "delivered" /\ ev.message
        THEN LET from == Or(ev.from, EmptyStr)
                 subject == OrT(ev.subject, NoSubject)
             IN Fields(Or(ev.recipients0, EmptyStr), from, subject,
                       Synthesized(from, subject), EmptyText)
        ELSE NoVals
    ELSE IF Truthy(f.to) /\ Truthy(f.from) THEN JsonFields(f)
    ELSE IF Truthy(f.recipient) THEN
        Fields(f.recipient, f.sender, OrT(f.subject, NoSubject),
               OrT(f.bodyPlain, OrT(f.strippedText, OrT(f.body, NoContent))),
               OrT(f.bodyHtml, OrT(f.strippedHtml, EmptyText)))
    ELSE IF IsMime(b) THEN Tagged("await")
    ELSE Tagged("unknown")

\* a slip: an event of another type that goes on to the lower-priority shapes
DetectEventFallsThrough(b) ==
    LET f == b.f  ev == b.f.eventData IN
    IF b.kind = "undefined" THEN Tagged("exception")
    ELSE IF ev.present /\ ev.event = "delivered" /\ ev.message THEN
        LET from == Or(ev.from, EmptyStr)
            subject == OrT(ev.subject, NoSubject)
        IN Fields(Or(ev.recipients0, EmptyStr), from, subject,
                  Synthesized(from, subject), EmptyText)
    ELSE IF Truthy(f.recipient) THEN
        Fields(f.recipient, f.sender, OrT(f.subject, NoSubject),
               OrT(f.bodyPlain, OrT(f.strippedText, OrT(f.body, NoContent))),
               OrT(f.bodyHtml, OrT(f.strippedHtml, EmptyText)))
    ELSE IF IsMime(b) THEN Tagged("await")
    ELSE IF Truthy(f.to) /\ Truthy(f.from) THEN JsonFields(f)
    ELSE Tagged("unknown")

DetectEvent(b) ==
    LET f == b.f  ev == b.f.eventData IN
    IF b.kind = "undefined" THEN Tagged("exception")      \* req.body['event-data'] throws
    ELSE IF ev.present THEN
        IF ev.event = "delivered" /\ ev.message
        THEN LET from == Or(ev.from, EmptyStr)
                 subject == OrT(ev.subject, NoSubject)
             IN Fields(Or(ev.recipients0, EmptyStr), from, subject,
                       Synthesized(from, subject), EmptyText)
        ELSE NoVals
    ELSE IF Truthy(f.recipient) THEN
        Fields(f.recipient, f.sender, OrT(f.subject, NoSubject),
               OrT(f.bodyPlain, OrT(f.strippedText, OrT(f.body, NoContent))),
               OrT(f.bodyHtml, OrT(f.strippedHtml, EmptyText)))
    ELSE IF IsMime(b) THEN Tagged("await")
    ELSE IF Truthy(f.to) /\ Truthy(f.from) THEN JsonFields(f)
    ELSE Tagged("unknown")

FinishEvent(l) ==
    IF ~Truthy(l.toEmail) THEN Ack("norecipient", 200, TRUE)
    ELSE LET to == extractEmail(l.toEmail)
             from == extractEmail(l.fromEmail)
         IN IF to = TypeError \/ from = TypeError
            THEN Ack("exception", 200, TRUE)     \* catch: res.json({success: true, error})
            ELSE Stored(to, Or(from, UnknownSender), l.subject, l.body, l.htmlBody,
                        "undefined", -1)

\* the Mailgun form-field shape as "urlenc" reads it
MailgunFields(f) ==
    Fields(f.recipient, f.sender, OrT(f.subject, NoSubject),
           OrT(f.bodyPlain, OrT(f.strippedText, NoContent)),
           OrT(f.bodyHtml, OrT(f.strippedHtml, EmptyText)))

\* if (!toEmail) acknowledge; else push the locals as they are
FinishPlain(l) ==
    IF ~Truthy(l.toEmail) THEN Ack("norecipient", 200, TRUE)
    ELSE Stored(l.toEmail, Or(l.fromEmail, UnknownSender), l.subject, l.body, l.htmlBody,
                "undefined", -1)

\* ---- "urlenc": server.js 377-440 ----

DetectUrlenc(b) ==
    IF b.kind = "undefined" THEN Tagged("exception")
    ELSE IF Truthy(b.f.recipient) THEN MailgunFields(b.f)
    ELSE IF Truthy(b.f.to) /\ Truthy(b.f.from) THEN JsonFields(b.f)
    ELSE Tagged("unknown")

\* ---- "multi": part_002 61-129 ----

DetectMulti(b) ==
    LET f == b.f IN
    IF b.kind = "undefined" THEN Tagged("exception")      \* req.body.to throws
    ELSE IF Truthy(f.to) /\ Truthy(f.from) THEN JsonFields(f)             \* SendGrid
    ELSE IF Truthy(f.recipient) /\ Truthy(f.sender) THEN                  \* Mailgun
        Fields(f.recipient, f.sender, OrT(f.subject, NoSubject),
               OrT(f.bodyPlain, OrT(f.bodyHtml, NoContent)),
               OrT(f.bodyHtml, EmptyText))
    ELSE IF f.envelope.present /\ f.headers.present THEN                  \* CloudMailin
        Fields(f.envelope.to, f.envelope.from, OrT(f.headers.subject, NoSubject),
               OrT(f.plain, OrT(f.html, NoContent)), OrT(f.html, EmptyText))
    ELSE                                                                  \* generic
        Fields(Or(f.to, Or(f.toEmail, f.recipient)),
               Or(f.from, Or(f.fromEmail, f.sender)),
               OrT(f.subject, NoSubject),
               OrT(f.body, OrT(f.text, OrT(f.plain, OrT(f.html, NoContent)))),
               OrT(f.html, EmptyText))

\* a slip: the handler without its `if (!toEmail)` test
FinishMultiNoGate(l) ==
    Stored(l.toEmail, Or(l.fromEmail, UnknownSender), l.subject, l.body, l.htmlBody,
           "undefined", -1)

FinishMulti(l) ==
    IF ~Truthy(l.toEmail) THEN Ack("norecipient", 400, FALSE)   \* res.status(400).json({error})
    ELSE Stored(l.toEmail, Or(l.fromEmail, UnknownSender), l.subject, l.body, l.htmlBody,
                "undefined", -1)

\* ---- "stream": server.js 137-185 ----

DetectStream(b) ==
    IF b.kind # "undefined" /\ Truthy(b.f.recipient)      \* data && data.recipient
    THEN IF IsArrayT(b.f.subject) THEN Tagged("exception")    \* 153: subject.substring(0, 50)
         ELSE
         Fields(b.f.recipient, b.f.sender, OrT(b.f.subject, NoSubject),
                OrT(b.f.bodyPlain, EmptyText), OrT(b.f.bodyHtml, EmptyText))
    ELSE Tagged("unknown")

FinishStream(l) ==
    Stored(Or(l.toEmail, UnknownRecipient), Or(l.fromEmail, UnknownSender),
           Substring(OrT(l.subject, NoSubject), SubjectCap),
           Substring(OrT(l.body, EmptyText), StreamStoreCap),
           Substring(OrT(l.htmlBody, EmptyText), StreamStoreCap),
           "true", Length(l.body) + Length(l.htmlBody))

\* ---- "custom": part_003 121-218 ----

DetectCustom(b) ==
    LET f == b.f IN
    IF b.kind # "undefined" /\ Truthy(f.recipient) THEN    \* req.body && req.body.recipient
        LET fullBody == OrT(f.bodyPlain, OrT(f.strippedText, EmptyText))
            fullHtml == OrT(f.bodyHtml, OrT(f.strippedHtml, EmptyText))
        IN Fields(f.recipient, f.sender, OrT(f.subject, NoSubject),
                  IF Length(fullBody) > MAX_CONTENT
                  THEN Concat(Substring(fullBody, MAX_CONTENT), BodyMarkerLen)
                  ELSE fullBody,
                  IF Length(fullHtml) > MAX_CONTENT
                  THEN Concat(Substring(fullHtml, MAX_CONTENT), HtmlMarkerLen)
                  ELSE fullHtml)
    ELSE IF b.kind # "undefined" /\ Truthy(f.to) /\ Truthy(f.from) THEN JsonFields(f)
    ELSE IF IsMime(b) THEN Tagged("await")
    ELSE Tagged("unknown")

FinishCustom(l) ==
    IF ~Truthy(l.toEmail) THEN Ack("norecipient", 200, TRUE)
    \* 193-198: `id: emailId++` is evaluated, then subject.substring or
    \* body.substring throws on an array, and the catch block answers
    ELSE IF IsArrayT(l.subject) \/ IsArrayT(l.body) \/ IsArrayT(l.htmlBody)
    THEN Ack("idlost", 200, TRUE)
    ELSE Stored(l.toEmail, Or(l.fromEmail, UnknownSender),
                Substring(l.subject, SubjectCap),
                Substring(l.body, CustomStoreCap),
                Substring(l.htmlBody, CustomStoreCap),
                IF Length(l.body) >= TruncatedFrom \/ Length(l.htmlBody) >= TruncatedFrom
                THEN "true" ELSE "false",
                Length(l.body) + Length(l.htmlBody))

\* ---- dispatch on the running server ----

Detect(v, b) ==
    CASE v = "event" -> DetectEvent(b)
      [] v = "urlenc" -> DetectUrlenc(b)
      [] v = "multi" -> DetectMulti(b)
      [] v = "stream" -> DetectStream(b)
      [] v = "custom" -> DetectCustom(b)

\* what the handler does with the locals once a shape set them
Finish(v, l) ==
    CASE v = "event" -> FinishEvent(l)
      [] v = "urlenc" -> FinishPlain(l)
      [] v = "multi" -> FinishMulti(l)
      [] v = "stream" -> FinishStream(l)
      [] v = "custom" -> FinishCustom(l)

\* the catch block of the handler
OnException(v) ==
    IF v = "multi" THEN Ack("exception", 500, FALSE)     \* res.status(500).json({error})
    ELSE Ack("exception", 200, TRUE)

\* the synchronous part of a handler run: up to its response, or up to the await
Handle(v, b) ==
    LET l == Detect(v, b) IN
    CASE l.tag = "fields" -> Finish(v, l)
      [] l.tag = "unknown" -> Ack("unknown", 200, TRUE)
      [] l.tag = "exception" -> OnException(v)
      [] l.tag = "await" -> Ack("await", 0, FALSE)

\* the rest of a handler run once simpleParser settled
Resume(v, b) ==
    LET l == MimeFields(b.raw.mime) IN Finish(v, l)

----------------------------------------------------------------------------
(* The store *)

TestEmail == Lit("Test Email", 10)
TestBody == Lit("This is a test email body.", 26)

\* fromEmail || 'test@sender.com' (part_000 248),
\* fromEmail || 'test@shorttermemail.com' (the other servers)
SimulateSender(v) ==
    IF v = "sqlite" THEN <<"test@sender.com">> ELSE <<"test@shorttermemail.com">>

\* a stored message.  html_body, truncated and size are absent (undefined,
\* -1) from records that are pushed without them.
Row(id, to, from, subject, body, html, ts, truncated, size) ==
    [id |-> id, to_email |-> to, from_email |-> from, subject |-> subject,
     body |-> body, html_body |-> html, timestamp |-> ts,
     truncated |-> truncated, size |-> size]

\* the record POST /api/simulate-email stores
SimulatedRow(v, in, id, ts) ==
    Row(id, in.toEmail, Or(in.fromEmail, SimulateSender(v)),
        OrT(in.subject, TestEmail), OrT(in.body, TestBody),
        IF v = "sqlite" THEN EmptyText ELSE UndefText, ts, "undefined", -1)

\* the record POST /api/webhook/email stores for outcome o
WebhookRow(o, id, ts) ==
    Row(id, o.to, o.from, o.subject, o.body, o.html, ts, o.truncated, o.size)

\* id: emailId++  /  INTEGER PRIMARY KEY AUTOINCREMENT
NextIdStuck(id) == id
NextId(id) == id + 1

Reverse(s) == [i \in 1..Len(s) |-> s[Len(s) + 1 - i]]
Take(s, n) == SubSeq(s, 1, Min(n, Len(s)))
Remove(s, i) == SubSeq(s, 1, i - 1) \o SubSeq(s, i + 1, Len(s))

\* ORDER BY timestamp DESC over the rows in the order the scan delivers them
RECURSIVE SortByTimestampDesc(_)
SortByTimestampDesc(s) ==
    IF s = <<>> THEN <<>>
    ELSE LET top == CHOOSE i \in 1..Len(s) :
                        /\ \A j \in 1..Len(s) : s[j].timestamp <= s[i].timestamp
                        /\ \A j \in 1..(i - 1) : s[j].timestamp < s[i].timestamp
         IN <<s[top]>> \o SortByTimestampDesc(Remove(s, top))

\* SQL leaves the order of rows with equal timestamp (one-second resolution)
\* to the query plan: rowid ascending when idx_to_email is scanned and the
\* rows are sorted, rowid descending when idx_timestamp is walked backwards.
TieOrders == {"rowid-asc", "rowid-desc"}

\* a slip: matching the address inside a display-name form as well
MatchesLoose(e, address) == extractEmail(e.to_email) = address
\* WHERE to_email = ?  /  e.to_email === email
Matches(e, address) == e.to_email = address

\* getEmailsForAddress(emailAddress, limit): SELECT ... WHERE to_email = ?
\* ORDER BY timestamp DESC LIMIT ?
getEmailsForAddress(store, emailAddress, limit, order) ==
    LET rows == SelectSeq(store, LAMBDA e : Matches(e, emailAddress))
        scan == IF order = "rowid-asc" THEN rows ELSE Reverse(rows)
    IN Take(SortByTimestampDesc(scan), limit)

\* a slip: the row at position emailId instead of the row with that id
getEmailByIndex(store, id) ==
    IF id \in 1..Len(store) THEN <<store[id]>> ELSE <<>>

\* getEmailById(emailId): SELECT * FROM emails WHERE id = ?  (<<>> is null)
getEmailById(store, id) ==
    SelectSeq(store, LAMBDA e : e.id = id)

\* a slip: DELETE FROM emails WHERE id <= ?
deleteEmailUpTo(store, id) ==
    SelectSeq(store, LAMBDA e : ~(e.id <= id))

\* deleteEmail(emailId): DELETE FROM emails WHERE id = ?
deleteEmail(store, id) ==
    SelectSeq(store, LAMBDA e : e.id # id)

\* a slip: timestamp <= datetime('now', '-<hours> hours')
ExpiredInclusive(e, t, hours) == e.timestamp <= t - hours

\* WHERE timestamp < datetime('now', '-<hours> hours')
Expired(e, t, hours) == e.timestamp < t - hours

\* cleanupOldEmails(hours): the rows that stay
cleanupOldEmails(store, t, hours) ==
    SelectSeq(store, LAMBDA e : ~Expired(e, t, hours))

\* a slip: if (toEmail === undefined)
SimulateValidDefined(in) == in.toEmail # undefined

\* if (!toEmail) return res.status(400)
SimulateValid(in) == Truthy(in.toEmail)

\* getStats(): SELECT COUNT(*) as total_emails, COUNT(DISTINCT to_email) as
\* unique_addresses FROM emails WHERE timestamp > datetime('now', '-24 hours')
getStats(store, t) ==
    LET rows == SelectSeq(store, LAMBDA e : e.timestamp > t - DefaultHours)
    IN [total_emails |-> Len(rows),
        unique_addresses |-> Cardinality({rows[i].to_email : i \in 1..Len(rows)})]

\* GET /api/stats: emails.length and new Set(emails.map(e => e.to_email)).size
\* on the in-memory servers, getStats() on the SQLite one
Statistics(v, store, t) ==
    IF v = "sqlite" THEN getStats(store, t)
    ELSE [total_emails |-> Len(store),
          unique_addresses |-> Cardinality({store[i].to_email : i \in 1..Len(store)})]

\* GET /api/emails/:email
Listing(v, store, address, order) ==
    IF v = "sqlite" THEN getEmailsForAddress(store, address, DefaultLimit, order)
    ELSE SelectSeq(store, LAMBDA e : Matches(e, address))     \* emails.filter(...)

----------------------------------------------------------------------------
(* Inputs *)

AddrA == <<"a@b.com">>
AddrB == <<"b@x.com">>
AddrC == <<"c@d.com">>
AddrD == <<"d@y.com">>
JaneA == <<"Jane Doe ", "<", "a@b.com", ">">>
JaneC == <<"Carl ", "<", "c@d.com", ">">>
SubjectS == Lit("S", 1)
Hi == Lit("hi", 2)
Yo == Lit("yo", 2)
HtmlHi == Lit("<p>hi</p>", 9)
Big == Lit("big", MAX_CONTENT + 1)
Huge == Lit("huge", CustomStoreCap + 1)

\* bodies of POST /api/simulate-email
SimulateInputs ==
    { [toEmail |-> AddrA, fromEmail |-> AddrC, subject |-> SubjectS, body |-> Hi],
      [toEmail |-> AddrB, fromEmail |-> undefined, subject |-> UndefText, body |-> UndefText],
      [toEmail |-> undefined, fromEmail |-> AddrC, subject |-> SubjectS, body |-> Hi],
      [toEmail |-> EmptyStr, fromEmail |-> undefined, subject |-> UndefText,
       body |-> UndefText] }

FormFull == [NoFields EXCEPT !.recipient = AddrA, !.sender = AddrC,
                             !.subject = SubjectS, !.bodyPlain = Hi]
FormJane == [NoFields EXCEPT !.recipient = JaneA, !.bodyHtml = HtmlHi]
FormBig == [NoFields EXCEPT !.recipient = AddrB, !.sender = JaneC,
                            !.bodyPlain = Big, !.bodyHtml = Huge]
JsonFull == [NoFields EXCEPT !.to = AddrA, !.from = JaneC,
                             !.subject = SubjectS, !.text = Hi]
Mixed == [NoFields EXCEPT !.recipient = AddrA, !.sender = AddrC, !.subject = SubjectS,
                          !.bodyPlain = Hi, !.to = AddrB, !.from = AddrD, !.text = Yo]
JsonNoSender == [NoFields EXCEPT !.to = AddrA, !.subject = SubjectS, !.text = Hi]
FooBar == NoFields                                  \* {foo: "bar"}

Event(event, to, from) ==
    [present |-> TRUE, event |-> event, message |-> TRUE,
     recipients0 |-> to, from |-> from, subject |-> SubjectS]
Delivered == [NoFields EXCEPT !.eventData = Event("delivered", JaneA, AddrC)]
DeliveredNobody == [NoFields EXCEPT !.eventData = Event("delivered", undefined, AddrC)]
DeliveredOddFrom == [NoFields EXCEPT !.eventData = Event("delivered", AddrA, NonString)]
Opened == [FormFull EXCEPT !.eventData = Event("opened", AddrB, AddrD)]

FlatFields == {FormFull, FormJane, FormBig, JsonFull, JsonNoSender, Mixed, FooBar}
NestedFields == {Delivered, DeliveredNobody, DeliveredOddFrom, Opened}

MimeOk == [hasFrom |-> TRUE, hasTo |-> TRUE, strlen |-> 100,
           mime |-> [ok |-> TRUE, to |-> JaneA, from |-> AddrC,
                     subject |-> SubjectS, text |-> Hi, html |-> UndefText]]
MimeBad == [hasFrom |-> TRUE, hasTo |-> TRUE, strlen |-> 100, mime |-> NoMime]

\* requests to POST /api/webhook/email
Wires ==
    {WireJson(f) : f \in FlatFields \cup NestedFields}
    \cup {WireForm(f) : f \in {FormFull, FormJane, FormBig, FooBar}}
    \cup {WireText(r) : r \in {MimeOk, MimeBad}}

ListAddresses == {AddrA, JaneA}

----------------------------------------------------------------------------
(* State machine *)

NoReq == [op |-> "none", arg |-> [none |-> TRUE]]
Response(op, tag, status, success, id, list, count) ==
    [op |-> op, tag |-> tag, status |-> status, success |-> success,
     emailId |-> id, list |-> list, count |-> count, unique |-> 0]
NoResp == Response("none", "none", 0, FALSE, 0, <<>>, 0)

\* the closure of one run of streamMailgunRequest / customBodyParser: the
\* form on the wire, `body` (its length) and `size`, the last chunk, and what
\* became of the request (responses sent, calls of next())
Reading(f) ==
    [stage |-> "reading", f |-> f, body |-> 0, size |-> 0, chunk |-> 0, chunks |-> 0,
     over |-> FALSE, threw |-> FALSE, sent |-> 0, nexts |-> 0]
NoMw == [Reading(NoFields) EXCEPT !.stage = "idle"]

Init ==
    /\ variant \in Variants
    /\ emails = <<>>
    /\ emailId = 1
    /\ assigned = <<>>
    /\ base = 0
    /\ now = 0
    /\ pending = <<>>
    /\ req = NoReq
    /\ resp = NoResp
    /\ exIn = EmptyStr
    /\ exOut = <<>>
    /\ mw = NoMw

CanInsert == emailId - base <= MaxInserts

\* a request that may store is taken up only while the records stored and the
\* handlers suspended so far leave room for one more record
Room == emailId - base + Len(pending) <= MaxInserts

\* a slip: an insert that restamps the rows already stored
InsertRestamping(row) ==
    /\ CanInsert
    /\ emails' = Append([i \in 1..Len(emails) |->
                            [emails[i] EXCEPT !.timestamp = row.timestamp]], row)
    /\ emailId' = NextId(emailId)
    /\ assigned' = Append(assigned, row.id)

\* emails.push(newEmail) with id: emailId++  /  INSERT INTO emails
Insert(row) ==
    /\ CanInsert
    /\ emails' = Append(emails, row)
    /\ emailId' = NextId(emailId)
    /\ assigned' = Append(assigned, row.id)

\* POST /api/simulate-email
Simulate ==
    \E in \in SimulateInputs :
        /\ req' = [op |-> "simulate", arg |-> in]
        /\ IF ~SimulateValid(in)
           THEN /\ resp' = Response("simulate", "invalid", 400, FALSE, 0, <<>>, 0)
                /\ UNCHANGED <<emails, emailId, assigned>>
           ELSE /\ Room
                /\ Insert(SimulatedRow(variant, in, emailId, now))
                /\ resp' = Response("simulate", "stored", 200, TRUE, emailId, <<>>, 0)
        /\ UNCHANGED <<variant, base, now, pending, exIn, exOut, mw>>

\* GET /api/emails/:email
List ==
    \E address \in ListAddresses, order \in TieOrders :
        /\ variant = "sqlite" \/ order = "rowid-asc"
        /\ req' = [op |-> "list", arg |-> [address |-> address, order |-> order]]
        /\ resp' = Response("list", "ok", 200, TRUE, 0,
                            Listing(variant, emails, address, order), 0)
        /\ UNCHANGED <<variant, emails, emailId, assigned, base, now, pending, exIn, exOut, mw>>

\* a slip: res.json({emailId: emailId}), the counter after the push, where the
\* code answers newEmail.id
ConcludeCounter(o) ==
    IF o.tag = "stored"
    THEN /\ Insert(WebhookRow(o, emailId, now))
         /\ resp' = Response("webhook", o.tag, o.status, o.success, emailId', <<>>, 0)
    ELSE IF o.tag = "idlost"
    THEN /\ CanInsert
         /\ emailId' = NextId(emailId)
         /\ resp' = Response("webhook", o.tag, o.status, o.success, 0, <<>>, 0)
         /\ UNCHANGED <<emails, assigned>>
    ELSE /\ resp' = Response("webhook", o.tag, o.status, o.success, 0, <<>>, 0)
         /\ UNCHANGED <<emails, emailId, assigned>>

\* the response for outcome o, and the push if it stores
Conclude(o) ==
    IF o.tag = "stored"
    THEN /\ Insert(WebhookRow(o, emailId, now))
         /\ resp' = Response("webhook", o.tag, o.status, o.success, emailId, <<>>, 0)
    ELSE IF o.tag = "idlost"
    THEN /\ CanInsert
         /\ emailId' = NextId(emailId)
         /\ resp' = Response("webhook", o.tag, o.status, o.success, 0, <<>>, 0)
         /\ UNCHANGED <<emails, assigned>>
    ELSE /\ resp' = Response("webhook", o.tag, o.status, o.success, 0, <<>>, 0)
         /\ UNCHANGED <<emails, emailId, assigned>>

\* POST /api/webhook/email, up to the response or to `await simpleParser`
Webhook ==
    \E w \in Wires :
        LET b == ParseBody(variant, w)
            o == Handle(variant, b)
        IN /\ variant \in WebhookVariants
           /\ o.tag \in {"stored", "await"} => Room
           /\ IF o.tag = "await"
              THEN /\ Len(pending) < MaxPending
                   /\ pending' = Append(pending, [w |-> w, body |-> b])
                   /\ UNCHANGED <<emails, emailId, assigned, req, resp>>
              ELSE /\ req' = [op |-> "webhook", arg |-> [w |-> w, body |-> b]]
                   /\ Conclude(o)
                   /\ UNCHANGED pending
           /\ UNCHANGED <<variant, base, now, exIn, exOut, mw>>

\* POST /api/webhook/email, from the settled simpleParser to the response
WebhookResume ==
    \E i \in 1..Len(pending) :
        /\ req' = [op |-> "webhook", arg |-> pending[i]]
        /\ Conclude(Resume(variant, pending[i].body))
        /\ pending' = Remove(pending, i)
        /\ UNCHANGED <<variant, base, now, exIn, exOut, mw>>

\* GET /api/email/:id -> getEmailById(emailId)
Get ==
    \E id \in (base + 1)..(base + MaxInserts + 1) :
        LET row == getEmailById(emails, id) IN
        /\ variant = "sqlite"
        /\ req' = [op |-> "get", arg |-> [id |-> id]]
        /\ resp' = IF row # <<>>                        \* if (email) res.json(email)
                   THEN Response("get", "found", 200, TRUE, id, row, 0)
                   ELSE Response("get", "notfound", 404, FALSE, id, <<>>, 0)
        /\ UNCHANGED <<variant, emails, emailId, assigned, base, now, pending, exIn, exOut, mw>>

\* DELETE /api/email/:id -> deleteEmail(emailId): DELETE FROM emails WHERE id = ?
Delete ==
    \E id \in (base + 1)..(base + MaxInserts + 1) :
        LET hit == {i \in 1..Len(emails) : emails[i].id = id} IN
        /\ variant = "sqlite"
        /\ req' = [op |-> "delete", arg |-> [id |-> id]]
        /\ emails' = deleteEmail(emails, id)
        /\ resp' = IF hit # {}                          \* this.changes > 0
                   THEN Response("delete", "deleted", 200, TRUE, id, <<>>, Cardinality(hit))
                   ELSE Response("delete", "notfound", 404, FALSE, id, <<>>, 0)
        /\ UNCHANGED <<variant, emailId, assigned, base, now, pending, exIn, exOut, mw>>

\* POST /api/cleanup -> cleanupOldEmails(hours):
\* DELETE FROM emails WHERE timestamp < datetime('now', '-<hours> hours')
Cleanup ==
    \E hours \in {0, MaxTime} :
        LET h == IF hours = 0 THEN DefaultHours ELSE hours      \* req.body.hours || 24
            kept == cleanupOldEmails(emails, now, h)
        IN /\ variant = "sqlite"
           /\ req' = [op |-> "cleanup", arg |-> [hours |-> hours]]
           /\ emails' = kept
           /\ resp' = Response("cleanup", "ok", 200, TRUE, 0, <<>>, Len(emails) - Len(kept))
           /\ UNCHANGED <<variant, emailId, assigned, base, now, pending, exIn, exOut, mw>>

\* GET /api/stats ("urlenc" has no such route)
Stats ==
    LET stats == Statistics(variant, emails, now) IN
    /\ variant # "urlenc"
    /\ req' = [op |-> "stats", arg |-> [none |-> TRUE]]
    /\ resp' = [Response("stats", "ok", 200, TRUE, 0, <<>>, stats.total_emails)
                    EXCEPT !.unique = stats.unique_addresses]
    /\ UNCHANGED <<variant, emails, emailId, assigned, base, now, pending, exIn, exOut, mw>>

\* time passes between two requests (the clock shows only in the timestamps
\* of stored records, so it is advanced once there is one)
Tick ==
    /\ emails # <<>>
    /\ \E t \in Times : t > now /\ now' = t
    /\ UNCHANGED <<variant, emails, emailId, assigned, base, pending, req, resp, exIn, exOut, mw>>

Next ==
    \/ Simulate
    \/ List
    \/ Webhook
    \/ WebhookResume
    \/ Get
    \/ Delete
    \/ Cleanup
    \/ Stats
    \/ Tick

Spec == Init /\ [][Next]_vars

----------------------------------------------------------------------------
(* extractEmail on its own: every string over a small alphabet *)

Alphabet == {"<", ">", "a", "b"}
Strings(n) == UNION {[1..k -> Alphabet] : k \in 0..n}

InitExtract ==
    /\ variant = "event"
    /\ emails = <<>>
    /\ emailId = 1
    /\ assigned = <<>>
    /\ base = 0
    /\ now = 0
    /\ pending = <<>>
    /\ req = NoReq
    /\ resp = NoResp
    /\ exIn \in Strings(MaxLen)
    /\ exOut = <<>>
    /\ mw = NoMw

\* toEmail = extractEmail(toEmail), applied to the argument and then to its result
ExtractStep ==
    /\ Len(exOut) < 2
    /\ exOut' = Append(exOut, extractEmail(IF exOut = <<>> THEN exIn ELSE exOut[Len(exOut)]))
    /\ UNCHANGED <<variant, emails, emailId, assigned, base, now, pending, req, resp, exIn, mw>>

NextExtract == ExtractStep

SpecExtract == InitExtract /\ [][NextExtract]_vars

----------------------------------------------------------------------------
(* The SQLite server with an inbox that received DefaultLimit messages      *)
(* within one second                                                        *)

BurstInput == [toEmail |-> AddrA, fromEmail |-> AddrC, subject |-> SubjectS, body |-> Hi]

InitBurst ==
    /\ variant = "sqlite"
    /\ emails = [i \in 1..DefaultLimit |-> SimulatedRow("sqlite", BurstInput, i, 0)]
    /\ emailId = DefaultLimit + 1
    /\ assigned = [i \in 1..DefaultLimit |-> i]
    /\ base = DefaultLimit
    /\ now = 0
    /\ pending = <<>>
    /\ req = NoReq
    /\ resp = NoResp
    /\ exIn = EmptyStr
    /\ exOut = <<>>
    /\ mw = NoMw

NextBurst ==
    \/ Simulate
    \/ List
    \/ Get
    \/ Delete
    \/ Cleanup
    \/ Stats
    \/ Tick

SpecBurst == InitBurst /\ [][NextBurst]_vars

----------------------------------------------------------------------------
(* The streaming body parsers in front of POST /api/webhook/email, one       *)
(* 'data', 'end' or 'error' event at a time.  A request stream delivers its  *)
(* 'data' events and then either 'end' or 'error'; after req.destroy() it    *)
(* delivers nothing more.  The form is ASCII, so bytes and characters agree. *)

MaxChunks == 3

StreamMaxSize == 5242880        \* server.js 37: 5 * 1024 * 1024
CustomMaxSize == 52428800       \* part_003 19: 50 * 1024 * 1024
StreamCut == 50000              \* server.js 48-49

ParserVariants == {"stream", "custom"}
MAX_SIZE(v) == IF v = "stream" THEN StreamMaxSize ELSE CustomMaxSize

\* chunk lengths: a small one, a socket buffer, and one as long as the ceiling
ChunkLengths(v) == {1024, 65536, MAX_SIZE(v)}

FormTwoBodies == [FormFull EXCEPT !.bodyPlain = ArrayText]   \* body-plain=hi&body-plain=yo
FormTwoSubjects == [FormFull EXCEPT !.subject = ArrayText]   \* subject=S&subject=T
ParserForms == {FormFull, FormBig, FooBar, FormTwoBodies, FormTwoSubjects}

\* what querystring.parse can find in the first StreamCut characters of a
\* form that had the fields f: all of them when they came first, or none of
\* the envelope fields when they came behind the cut
Prefixes(f) ==
    {f, [f EXCEPT !.recipient = undefined, !.sender = undefined, !.subject = UndefText]}

\* a slip: the buffer is never cut
TruncateNot(len) == len

\* server.js 48-50: if (body.length > 50000) body = body.substring(0, 50000)
Truncate(len) == IF len > StreamCut THEN StreamCut ELSE len

\* a slip: the data handler returns without req.destroy()
AfterDestroyStillReading == "reading"

\* part_003 32: req.destroy() -- the stream delivers no further event
AfterDestroy == "destroyed"

\* a slip: an oversized request is refused
LargeRejected == Response("webhook", "dropped", 413, FALSE, 0, <<>>, 0)

\* part_003 27-31: res.status(200).json({success: true, message: '... (large email handled)'})
LargeHandled == Response("webhook", "dropped", 200, TRUE, 0, <<>>, 0)

\* the request as the parser leaves it when it answers itself: req.body unset
Unparsed(f) == [op |-> "webhook", arg |-> [w |-> WireForm(f), body |-> BodyUndefined]]

InitParser ==
    /\ variant \in ParserVariants
    /\ emails = <<>>
    /\ emailId = 1
    /\ assigned = <<>>
    /\ base = 0
    /\ now = 0
    /\ pending = <<>>
    /\ req = NoReq
    /\ resp = NoResp
    /\ exIn = EmptyStr
    /\ exOut = <<>>
    /\ mw = NoMw

\* streamMailgunRequest / customBodyParser is entered for a form-urlencoded
\* POST /api/webhook/email and registers its handlers
BodyParser ==
    \E f \in ParserForms :
        /\ mw.stage # "reading"
        /\ mw' = Reading(f)
        /\ UNCHANGED <<variant, emails, emailId, assigned, base, now, pending, req, resp,
                       exIn, exOut>>

\* req.on('data', chunk => ...)
OnData ==
    \E n \in ChunkLengths(variant) :
        LET body == mw.body + n
            size == mw.size + n
            read == [mw EXCEPT !.body = body, !.size = size, !.chunk = n,
                               !.chunks = @ + 1]
        IN /\ mw.stage = "reading"
           /\ mw.chunks < MaxChunks
           /\ IF size <= MAX_SIZE(variant)
              THEN /\ mw' = read
                   /\ UNCHANGED <<req, resp>>
              ELSE IF variant = "stream"
              THEN /\ mw' = [read EXCEPT !.body = Truncate(body), !.over = TRUE]
                   /\ UNCHANGED <<req, resp>>
              ELSE /\ mw' = [read EXCEPT !.over = TRUE, !.sent = @ + 1,
                                         !.stage = AfterDestroy]
                   /\ req' = Unparsed(mw.f)
                   /\ resp' = LargeHandled
           /\ UNCHANGED <<variant, emails, emailId, assigned, base, now, pending, exIn, exOut>>

\* req.on('end', () => ...): querystring.parse(body), req.body, next() and
\* with it the route handler, which has no await on an object body
OnEnd ==
    \E parsed \in (IF variant = "stream" /\ mw.over THEN Prefixes(mw.f) ELSE {mw.f}) :
        LET b == IF variant = "stream" THEN StreamBody(parsed) ELSE BodyObject(parsed)
            o == Handle(variant, b)
        IN /\ mw.stage = "reading"
           /\ mw.chunks >= 1
           /\ o.tag = "stored" => Room
           /\ req' = [op |-> "webhook", arg |-> [w |-> WireForm(mw.f), body |-> b]]
           /\ Conclude(o)
           /\ mw' = [mw EXCEPT !.stage = "ended",
                               !.threw = (variant = "stream" /\ EssentialThrows(parsed)),
                               !.nexts = @ + 1, !.sent = @ + 1]
           /\ UNCHANGED <<variant, base, now, pending, exIn, exOut>>

\* req.on('error', err => res.status(200).json({success: true, ...}))
OnError ==
    /\ mw.stage = "reading"
    /\ mw' = [mw EXCEPT !.stage = "errored", !.sent = @ + 1]
    /\ req' = Unparsed(mw.f)
    /\ resp' = Response("webhook", "received", 200, TRUE, 0, <<>>, 0)
    /\ UNCHANGED <<variant, emails, emailId, assigned, base, now, pending, exIn, exOut>>

NextParser ==
    \/ BodyParser
    \/ OnData
    \/ OnEnd
    \/ OnError

SpecParser == InitParser /\ [][NextParser]_vars

----------------------------------------------------------------------------
(* Properties *)

\* the record pushed by the request answered last (while resp.tag = "stored")
LastRow == emails[Len(emails)]

Orders == IF variant = "sqlite" THEN TieOrders ELSE {"rowid-asc"}

\* a "<", some text, a ">": the form `Display Name <address@domain>`
HasBracketPart(a) ==
    \E i \in 1..Len(a) : \E j \in (i + 2)..Len(a) : a[i] = "<" /\ a[j] = ">"

\* C1: after a successful POST /api/simulate-email with a non-empty toEmail,
\* listing the emails of that toEmail contains a record with the submitted
\* recipient, sender, subject and body (defaults for omitted ones) whose id
\* is the one answered and was never handed out before.
C1_SimulateThenListed ==
    (resp.op = "simulate" /\ resp.status = 200) =>
        /\ Truthy(req.arg.toEmail)
        /\ \A k \in 1..(Len(assigned) - 1) : assigned[k] # resp.emailId
        /\ \A order \in Orders :
             LET l == Listing(variant, emails, req.arg.toEmail, order) IN
             \E k \in 1..Len(l) :
                /\ l[k].id = resp.emailId
                /\ l[k].to_email = req.arg.toEmail
                /\ l[k].from_email = Or(req.arg.fromEmail, SimulateSender(variant))
                /\ l[k].subject = OrT(req.arg.subject, TestEmail)
                /\ l[k].body = OrT(req.arg.body, TestBody)

\* C2: ids are unique and strictly increasing in insertion order over all
\* inserts, whatever the route and the recipient, also after deletions and
\* evictions; an id handed out once is never handed out again.
C2_IdsStrictlyIncrease ==
    /\ \A i, j \in 1..Len(assigned) : i < j => assigned[i] < assigned[j]
    /\ \A i, j \in 1..Len(emails) : i < j => emails[i].id < emails[j].id
    /\ \A i \in 1..Len(emails) : \E k \in 1..Len(assigned) : assigned[k] = emails[i].id
    /\ \A k \in 1..Len(assigned) : assigned[k] < emailId

\* two inserts for different recipients, the first by simulate and the
\* second by the webhook
C2_Witness ==
    /\ Len(emails) >= 2
    /\ emails[1].to_email # emails[2].to_email
    /\ emails[1].html_body = UndefText
    /\ resp.op = "webhook" /\ resp.tag = "stored" /\ resp.emailId = emails[2].id
    /\ emails[1].id < emails[2].id

\* C3: a listing never has more than limit (50) records and is newest
\* first, i.e. in descending order of receipt time.
C3_ListNewestFirst ==
    resp.op = "list" =>
        /\ Len(resp.list) <= DefaultLimit
        /\ \A i, j \in 1..Len(resp.list) :
              i < j => resp.list[i].timestamp >= resp.list[j].timestamp

\* C4: a listing returns only records whose stored recipient equals the
\* requested address, and every such record when fewer than limit match.
C4_ListExactRecipient ==
    resp.op = "list" =>
        LET address == req.arg.address
            match == {i \in 1..Len(emails) : emails[i].to_email = address}
        IN /\ \A k \in 1..Len(resp.list) : resp.list[k].to_email = address
           /\ Cardinality(match) < DefaultLimit =>
                \A i \in match : \E k \in 1..Len(resp.list) : resp.list[k] = emails[i]

\* a listing that returned something while the store holds a record of
\* another recipient, one written in display-name form around the same address
C4_Witness ==
    /\ resp.op = "list"
    /\ Len(resp.list) >= 1
    /\ req.arg.address = AddrA
    /\ \E i \in 1..Len(emails) : emails[i].to_email = JaneA

\* C5: POST /api/webhook/email always answers 200 with success = true,
\* whatever the payload.
C5_WebhookAlwaysAcknowledges ==
    resp.op = "webhook" => (resp.status = 200 /\ resp.success)

\* no top-level to/from/recipient-like field and no nested envelope or event
Unrecognized(b) ==
    /\ b.kind = "object"
    /\ b.f.recipient = undefined /\ b.f.sender = undefined
    /\ b.f.to = undefined /\ b.f.from = undefined
    /\ b.f.toEmail = undefined /\ b.f.fromEmail = undefined
    /\ ~b.f.envelope.present /\ ~b.f.headers.present /\ ~b.f.eventData.present

\* C6: a webhook payload of an unrecognized shape adds nothing to the store,
\* leaves the id counter as it is, and is answered with success.
C6_UnrecognizedIgnored ==
    [][ (req'.op = "webhook" /\ Unrecognized(req'.arg.body)) =>
            (emails' = emails /\ emailId' = emailId
             /\ resp'.status = 200 /\ resp'.success) ]_vars

\* C7: shapes are tried in the order event-wrapped, form-field, raw MIME,
\* generic JSON and the first match wins: a payload with recipient/sender
\* and to/from is stored from its form fields, and a payload with event-data
\* is never stored from its form fields.
C7_FirstShapeWins ==
    (resp.op = "webhook" /\ req.arg.body.kind = "object") =>
        LET f == req.arg.body.f IN
        /\ (~f.eventData.present /\ Truthy(f.recipient) /\ Truthy(f.to) /\ Truthy(f.from)) =>
              /\ resp.tag = "stored"
              /\ LastRow.to_email \in {f.recipient, extractEmail(f.recipient)}
              /\ LastRow.from_email \in {f.sender, extractEmail(f.sender), UnknownSender}
              /\ TruthyT(f.bodyPlain) => LastRow.body.id = f.bodyPlain.id
        /\ (variant = "event" /\ f.eventData.present /\ Truthy(f.recipient)
            /\ resp.tag = "stored") =>
              LastRow.to_email = extractEmail(f.eventData.recipients0)

\* C8: no record stored by the webhook has a recipient or a sender of the
\* form `Display Name <address@domain>`.
C8_AddressesExtracted ==
    (resp.op = "webhook" /\ resp.tag = "stored") =>
        /\ ~HasBracketPart(LastRow.to_email)
        /\ ~HasBracketPart(LastRow.from_email)

\* positions of "<" in s, and the first ">" after position i (0 if none)
OpenAt(s) == {i \in 1..Len(s) : s[i] = "<"}
Least(S) == CHOOSE x \in S : \A y \in S : x <= y
NextClose(s, i) ==
    LET c == {j \in (i + 1)..Len(s) : s[j] = ">"} IN IF c = {} THEN 0 ELSE Least(c)
\* the "<" that open a bracketed part with some text in it
OpenOfPart(s) == {i \in OpenAt(s) : NextClose(s, i) > i + 1}

\* C9 as stated: the result is the text between the first "<" and the next
\* ">" when that text is non-empty, the argument itself otherwise, and a
\* second application changes nothing.
C9_FirstBracketOrUnchanged ==
    Len(exOut) >= 1 =>
        LET s == exIn
            r == exOut[1]
            i == IF OpenAt(s) = {} THEN 0 ELSE Least(OpenAt(s))
            j == IF i = 0 THEN 0 ELSE NextClose(s, i)
        IN /\ IF j > i + 1 THEN r = SubSeq(s, i + 1, j - 1) ELSE r = s
           /\ Len(exOut) = 2 => exOut[2] = exOut[1]

\* C9: extractEmail maps "a<b>" to "b" and leaves "b" unchanged; it returns
\* the text between the first "<" that is followed by some text and a ">"
\* and the next ">" (so the text between the first "<" and the next ">"
\* when that text is non-empty), returns the argument unchanged when no
\* bracketed part with text in it exists, and is idempotent.
C9_ExtractEmail ==
    Len(exOut) >= 1 =>
        LET s == exIn
            r == exOut[1]
            parts == OpenOfPart(s)
        IN /\ s = <<"a", "<", "b", ">">> => r = <<"b">>
           /\ s = <<"b">> => r = s
           /\ parts = {} => r = s
           /\ parts # {} =>
                LET i == Least(parts) IN r = SubSeq(s, i + 1, NextClose(s, i) - 1)
           /\ (OpenAt(s) # {} /\ Least(OpenAt(s)) \in parts) =>
                LET i == Least(OpenAt(s)) IN r = SubSeq(s, i + 1, NextClose(s, i) - 1)
           /\ Len(exOut) = 2 => exOut[2] = exOut[1]

\* an empty bracket pair in front of a bracketed address, extracted twice
C9_Witness ==
    /\ exIn = <<"<", ">", "<", "a", ">">>
    /\ Len(exOut) = 2
    /\ exOut[1] = <<"a">>

\* the servers whose form-field branch C10 is about
C10Variants == {"event", "stream", "custom"}

\* what the form-field branch may keep of a body: all of it (0) or a prefix
BodyCap(v) ==
    CASE v = "stream" -> StreamStoreCap
      [] v = "custom" -> MAX_CONTENT
      [] OTHER -> 0
Whole(v, t) == TruthyT(t) /\ (BodyCap(v) = 0 \/ Length(t) <= BodyCap(v))

C11Variants == {"stream", "custom"}

\* C11: a form-field payload whose body text is longer than the server's
\* truncation threshold is stored with truncated = true and with a body text
\* of exactly that many characters.
C11_TruncatedToCap ==
    (/\ variant \in C11Variants
     /\ resp.op = "webhook" /\ resp.tag = "stored"
     /\ Length(req.arg.w.f.bodyPlain) > BodyCap(variant)) =>
        /\ LastRow.truncated = "true"
        /\ Length(LastRow.body) = BodyCap(variant)

\* C12: every record stored through the webhook has a body text and an HTML
\* body of at most the fixed maximum, here the largest cap any of the
\* servers applies.
C12_BodiesCapped ==
    (resp.op = "webhook" /\ resp.tag = "stored") =>
        /\ Length(LastRow.body) <= CustomStoreCap
        /\ Length(LastRow.html_body) <= CustomStoreCap

\* the step is the handling of one request of kind op (and not a later tick
\* or suspension that leaves req as it was)
Handled(op) == req'.op = op /\ now' = now /\ pending' = pending

\* C13: POST /api/cleanup with a window of h hours (24 when hours is
\* omitted) removes exactly the records received more than h hours ago:
\* none of those remains, every other record stays as it was and in place,
\* and the count answered is the number of records removed.
C13_EvictsExactlyOlder ==
    [][ Handled("cleanup") =>
          LET h == IF req'.arg.hours = 0 THEN DefaultHours ELSE req'.arg.hours
              old == {i \in 1..Len(emails) : now - emails[i].timestamp > h}
              young == (1..Len(emails)) \ old
          IN /\ req'.arg.hours = 0 => h = 24
             /\ \A k \in 1..Len(emails') : now - emails'[k].timestamp <= h
             /\ \A i \in young : \E k \in 1..Len(emails') : emails'[k] = emails[i]
             /\ Len(emails') = Cardinality(young)
             /\ resp'.count = Cardinality(old)
             /\ resp'.status = 200 ]_vars

\* a cleanup with the default window that removed a record and kept another
C13_Witness ==
    /\ req.op = "cleanup" /\ req.arg.hours = 0
    /\ resp.op = "cleanup" /\ resp.count = 1
    /\ Len(emails) = 1 /\ Len(assigned) = 2

\* C14: DELETE /api/email/:id of an id that is not stored answers 404 and
\* leaves the store as it is; of a stored id it answers 200 and removes that
\* record and no other; the same delete repeated answers 404.
C14_DeleteOnce ==
    [][ Handled("delete") =>
          LET id == req'.arg.id
              hit == {i \in 1..Len(emails) : emails[i].id = id}
          IN /\ hit = {} => (resp'.status = 404 /\ emails' = emails)
             /\ hit # {} =>
                   /\ resp'.status = 200
                   /\ Len(emails') = Len(emails) - 1
                   /\ \A k \in 1..Len(emails') : emails'[k].id # id
                   /\ \A i \in (1..Len(emails)) \ hit :
                         \E k \in 1..Len(emails') : emails'[k] = emails[i]
             /\ (req.op = "delete" /\ req.arg.id = id /\ resp.status = 200) =>
                   resp'.status = 404
             /\ emailId' = emailId ]_vars

\* a delete answered 404 for an id that was stored and deleted before (no
\* eviction can have removed it: the clock has not moved), next to a record
\* that is still there
C14_Witness ==
    /\ req.op = "delete" /\ resp.op = "delete" /\ resp.status = 404
    /\ \E k \in 1..Len(assigned) : assigned[k] = req.arg.id
    /\ now = 0
    /\ Len(emails) = 1

\* C15: POST /api/simulate-email without toEmail, or with an empty one,
\* answers 400; the store and the id counter stay as they were.
C15_SimulateRejectsMissing ==
    [][ (Handled("simulate") /\ req'.arg.toEmail \in {undefined, EmptyStr}) =>
          /\ resp'.status = 400
          /\ emails' = emails
          /\ emailId' = emailId ]_vars

\* an empty toEmail refused by a server that holds a record
C15_Witness ==
    /\ req.op = "simulate" /\ req.arg.toEmail = EmptyStr
    /\ resp.op = "simulate" /\ resp.status = 400
    /\ Len(emails) = 1 /\ emailId = 2

\* C16: GET /api/email/:id answers 200 with the one stored record of that
\* id when there is one, and 404 otherwise (never inserted, deleted or
\* evicted); it never answers 500 for an id that is not stored.
C16_GetById ==
    resp.op = "get" =>
        LET stored == {i \in 1..Len(emails) : emails[i].id = req.arg.id} IN
        /\ stored # {} =>
              /\ resp.status = 200
              /\ Len(resp.list) = 1
              /\ \A i \in stored : resp.list[1] = emails[i]
        /\ stored = {} => (resp.status = 404 /\ resp.list = <<>>)
        /\ resp.status # 500

\* the second record found by its id after the first one was removed
C16_Witness ==
    /\ resp.op = "get" /\ resp.status = 200
    /\ Len(assigned) = 2 /\ Len(emails) = 1
    /\ req.arg.id = assigned[2]
    /\ resp.list = <<emails[1]>>

\* C17: a raw-text payload with a From: and a To: marker that does not parse
\* as a MIME message is answered 200 with success = true, and neither the
\* store nor the id counter changes.
C17_MimeFailureAcknowledged ==
    [][ (/\ req'.op = "webhook"
         /\ IsMime(req'.arg.body)
         /\ ~req'.arg.body.raw.mime.ok) =>
            /\ resp'.status = 200 /\ resp'.success
            /\ resp'.tag # "stored"
            /\ emails' = emails
            /\ emailId' = emailId ]_vars

\* the handler of part_001 resumed after simpleParser threw, on a server
\* that holds a record
C17_Witness ==
    /\ variant = "event"
    /\ req.op = "webhook" /\ req.arg.w.raw = MimeBad
    /\ resp.op = "webhook" /\ resp.tag = "norecipient"
    /\ Len(emails) = 1

\* C18: no step changes a stored record: a record that is in the store
\* after a step and whose id was in the store before it is the very record
\* of before (id, recipient, sender, subject, bodies, receipt time).
C18_StoredImmutable ==
    [][ \A k \in 1..Len(emails') :
          (\E i \in 1..Len(emails) : emails[i].id = emails'[k].id) =>
              (\E i \in 1..Len(emails) : emails[i] = emails'[k]) ]_vars

\* the second of two records, left in the store by the delete or the
\* eviction that removed the first
C18_Witness ==
    /\ req.op \in {"delete", "cleanup"} /\ resp.count = 1
    /\ Len(assigned) = 2 /\ Len(emails) = 1
    /\ emails[1].id = assigned[2]

\* no recipient can be read from the body the handler received
NoRecipient(b) ==
    /\ ~Truthy(b.f.recipient) /\ ~Truthy(b.f.to) /\ ~Truthy(b.f.toEmail)
    /\ ~Truthy(b.f.envelope.to)
    /\ ~Truthy(b.f.eventData.recipients0)
    /\ ~Truthy(b.raw.mime.to)

C20_SenderDefaults ==
    (/\ resp.op = "webhook"
     /\ req.arg.body.kind = "object"
     /\ ~req.arg.body.f.eventData.present
     /\ ~req.arg.body.f.envelope.present
     /\ Truthy(req.arg.body.f.recipient) \/ Truthy(req.arg.body.f.to)
     /\ ~Truthy(req.arg.body.f.sender)
     /\ ~Truthy(req.arg.body.f.from)
     /\ ~Truthy(req.arg.body.f.fromEmail)) =>
        /\ resp.tag = "stored"
        /\ LastRow.from_email = UnknownSender

\* C21: a webhook POST with Content-Type application/json and a generic JSON
\* body {to, from, subject, text} is answered as stored, and the record pushed
\* for it has recipient to, sender from (as sent, or the address extracted
\* from it) and body text.
C21_GenericJsonStored ==
    (/\ variant \in WebhookVariants
     /\ req.op = "webhook" /\ resp.op = "webhook"
     /\ req.arg.w.ctype = "application/json"
     /\ Truthy(req.arg.w.f.to) /\ Truthy(req.arg.w.f.from) /\ TruthyT(req.arg.w.f.text)
     /\ ~Truthy(req.arg.w.f.recipient) /\ ~req.arg.w.f.eventData.present) =>
        /\ resp.tag = "stored"
        /\ emails # <<>>
        /\ LastRow.id = resp.emailId
        /\ LastRow.to_email \in {req.arg.w.f.to, extractEmail(req.arg.w.f.to)}
        /\ LastRow.from_email \in {req.arg.w.f.from, extractEmail(req.arg.w.f.from)}
        /\ LastRow.body = req.arg.w.f.text

\* C22: the statistics answered report a total equal to the number of
\* messages stored at that moment and a distinct-recipient count equal to the
\* number of different recipients among them.
C22_StatsCountStore ==
    resp.op = "stats" =>
        /\ resp.count = Len(emails)
        /\ resp.unique = Cardinality({emails[i].to_email : i \in 1..Len(emails)})

\* C25: on the server that knows the event-wrapped shape, a payload with
\* `event-data` describing a delivered event with a recipient is stored with
\* the first message recipient (its address), the sender and subject of the
\* nested headers and a synthesized body text, no HTML; a payload with
\* `event-data` of any other kind is acknowledged with success and changes
\* neither the store nor the counter, whatever other fields it carries.
C25_EventWrapped ==
    [][(/\ variant = "event"
        /\ Handled("webhook")
        /\ req'.arg.body.kind = "object"
        /\ req'.arg.body.f.eventData.present) =>
            LET ev == req'.arg.body.f.eventData
                row == emails'[Len(emails')]
            IN IF /\ ev.event = "delivered" /\ ev.message
                  /\ Truthy(ev.recipients0) /\ IsString(ev.recipients0) /\ IsString(ev.from)
               THEN /\ resp'.tag = "stored"
                    /\ Len(emails') = Len(emails) + 1
                    /\ row.to_email \in {ev.recipients0, extractEmail(ev.recipients0)}
                    /\ Truthy(ev.from) =>
                          row.from_email \in {ev.from, extractEmail(ev.from)}
                    /\ row.subject = OrT(ev.subject, NoSubject)
                    /\ row.body.id = "Email delivered from ${fromEmail} with subject: ${subject}"
                    /\ row.body \notin {req'.arg.body.f.bodyPlain, req'.arg.body.f.text,
                                        req'.arg.body.f.body}
                    /\ row.html_body = EmptyText
               ELSE /\ resp'.tag # "stored"
                    /\ resp'.status = 200 /\ resp'.success
                    /\ emails' = emails /\ emailId' = emailId
      ]_vars

\* a delivered event was stored, and an event of another type that also
\* carries form fields was acknowledged after it without a second record
C25_Witness ==
    /\ variant = "event"
    /\ req.op = "webhook" /\ req.arg.w.f = Opened
    /\ resp.op = "webhook" /\ resp.tag = "norecipient"
    /\ Len(emails) = 1
    /\ emails[1].body.id = "Email delivered from ${fromEmail} with subject: ${subject}"

\* C26: whatever the interleaving of simulate requests, webhook requests and
\* webhook handlers resumed after their await, no two stored records share an
\* id, the records of an in-memory store lie in increasing id order, and the
\* emailId of a storing response is the id of the record pushed for that very
\* request (its recipient is the one that request named).
C26_IdAssignmentAtomic ==
    /\ \A i, j \in 1..Len(emails) : i < j => emails[i].id # emails[j].id
    /\ variant # "sqlite" =>
          \A i, j \in 1..Len(emails) : i < j => emails[i].id < emails[j].id
    /\ (resp.op \in {"simulate", "webhook"} /\ resp.tag = "stored") =>
          /\ emails # <<>>
          /\ LastRow.id = resp.emailId
          /\ req.op = "simulate" => LastRow.to_email = req.arg.toEmail
          /\ (req.op = "webhook" /\ req.arg.body.kind = "string") =>
                LastRow.to_email = extractEmail(req.arg.body.raw.mime.to)

\* a webhook handler that was suspended at its await has stored its record
\* behind one that a simulate request stored, and answered the later id
C26_Witness ==
    /\ variant = "event"
    /\ req.op = "webhook" /\ req.arg.body.kind = "string"
    /\ resp.op = "webhook" /\ resp.tag = "stored" /\ resp.emailId = 2
    /\ Len(emails) = 2
    /\ emails[1].from_email = SimulateSender(variant)
    /\ emails[2].to_email = extractEmail(req.arg.body.raw.mime.to)

\* C28: a webhook record of the servers that flag truncation whose stored
\* body text and HTML body are the received ones, uncut, has truncated = false.
C28_TruncatedOnlyWhenCut ==
    (/\ variant \in {"stream", "custom"}
     /\ req.op = "webhook" /\ resp.op = "webhook" /\ resp.tag = "stored"
     /\ LastRow.body = OrT(req.arg.w.f.bodyPlain, OrT(req.arg.w.f.strippedText, EmptyText))
     /\ LastRow.html_body = OrT(req.arg.w.f.bodyHtml, OrT(req.arg.w.f.strippedHtml, EmptyText)))
        => LastRow.truncated = "false"

\* C23: a form-urlencoded webhook request whose payload went over the size
\* ceiling ends with a 200 success response: either its buffer was cut back
\* and the request went on to the route handler, or the parser answered
\* itself and neither the store nor the counter changed.
C23_OversizeAcknowledged ==
    [][(mw.stage = "reading" /\ mw'.stage \in {"ended", "errored", "destroyed"} /\ mw'.over) =>
            /\ resp'.op = "webhook" /\ resp'.status = 200 /\ resp'.success
            /\ \/ mw'.nexts = 1 /\ mw'.body <= StreamCut
               \/ mw'.nexts = 0 /\ emails' = emails /\ emailId' = emailId
      ]_vars

\* the parser dropped an oversized request after an earlier one was stored
C23_Witness ==
    /\ variant = "custom"
    /\ mw.stage = "destroyed" /\ mw.over /\ mw.size > CustomMaxSize
    /\ resp.tag = "dropped" /\ resp.status = 200
    /\ Len(emails) = 1

\* C24: while a streaming body parser reads a form-urlencoded webhook request,
\* the length of its buffer after each chunk is at most the ceiling plus that
\* chunk, and once the size is over the ceiling the buffer is at most 50000
\* characters long or the stream was destroyed.
C24_BufferBounded ==
    mw.stage # "idle" =>
        /\ mw.body <= MAX_SIZE(variant) + mw.chunk
        /\ mw.size > MAX_SIZE(variant) => (mw.body <= 50000 \/ mw.stage = "destroyed")

\* the buffer was cut back and a further chunk was read and cut again
C24_Witness ==
    /\ variant = "stream"
    /\ mw.stage = "reading" /\ mw.chunks = 3
    /\ mw.size > StreamMaxSize + 65536
    /\ mw.body = 50000

\* C29: for every order of the data, end and error events of a form-urlencoded
\* webhook request, one response is sent and no more: while the request is
\* read nothing was sent and next() was not called, and once it is over either
\* the parser answered and next() was never called, or next() was called once
\* and the route handler answered.
C29_OneOutcome ==
    /\ mw.sent <= 1 /\ mw.nexts <= 1
    /\ mw.stage \in {"idle", "reading"} => (mw.sent = 0 /\ mw.nexts = 0)
    /\ mw.stage \in {"ended", "errored", "destroyed"} => mw.sent = 1
    /\ mw.stage \in {"errored", "destroyed"} => mw.nexts = 0
    /\ mw.stage = "ended" => mw.nexts = 1

\* an error event after some data: the parser answered, the route handler
\* never ran
C29_Witness ==
    /\ mw.stage = "errored" /\ mw.chunks >= 1
    /\ mw.sent = 1 /\ mw.nexts = 0
    /\ resp.tag = "received"

\* C30: when the 'end' handler of the streaming Mailgun parser throws while it
\* parses the buffered form, the webhook answers success and the store gained
\* a record for error@shorttermemail.com with subject 'Parse Error' under an
\* id no other record has, which is the id answered.
C30_ParseErrorStored ==
    (variant = "stream" /\ mw.stage = "ended" /\ mw.threw) =>
        /\ resp.op = "webhook" /\ resp.tag = "stored"
        /\ resp.status = 200 /\ resp.success
        /\ emails # <<>>
        /\ LastRow.to_email = <<"error@shorttermemail.com">>
        /\ LastRow.subject.id = "Parse Error"
        /\ LastRow.id = resp.emailId
        /\ \A i \in 1..(Len(emails) - 1) : emails[i].id # LastRow.id

\* a form with two body-plain fields was stored as the second record
C30_Witness ==
    /\ variant = "stream"
    /\ mw.stage = "ended" /\ mw.threw /\ mw.f = FormTwoBodies
    /\ Len(emails) = 2
    /\ emails[2].to_email = <<"error@shorttermemail.com">>
    /\ resp.emailId = 2

\* C27: on the in-memory servers every step leaves the records already stored
\* in place, the counter is the number of stored records plus one, the stored
\* ids are 1..n in order, and a step that stores nothing leaves the counter
\* alone.
C27_CounterTiedToStore ==
    [][variant # "sqlite" =>
            /\ Len(emails') >= Len(emails)
            /\ SubSeq(emails', 1, Len(emails)) = emails
            /\ emailId' = Len(emails') + 1
            /\ \A i \in 1..Len(emails') : emails'[i].id = i
            /\ Len(emails') = Len(emails) => emailId' = emailId
      ]_vars

====
